---- MODULE Spec2Model ----
(***************************************************************************)
(* The tetanus lexer (src/src/lexer.rs) as a state machine.                *)
(*                                                                         *)
(* A source text is a sequence of one-character strings; all characters    *)
(* are ASCII, so a byte offset of the Rust code is a 0-based index into    *)
(* the sequence.  One step of the machine is one iteration of the loop of  *)
(* Lexer::tokenize: a call of find_token and what tokenize does with its   *)
(* result.  A failed assertion of the string library (a slice whose begin  *)
(* is greater than its end) ends the task: tokenize returns nothing.       *)
(***************************************************************************)
EXTENDS FiniteSets, Integers, Sequences, TLC

VARIABLES code, idx, line, result, ret, calls

vars == <<code, idx, line, result, ret, calls>>

(***************************************************************************)
(* Bounds of the model.                                                    *)
(***************************************************************************)
MaxLen == 4
MaxPad == 2

(***************************************************************************)
(* Characters.                                                             *)
(***************************************************************************)
QUOTE == "\""
BACKSLASH == "\\"
NL == "\n"
TAB == "\t"
SPACE == " "
CR == "\r"

Digits == {"0", "1", "2", "3", "4", "5", "6", "7", "8", "9"}

\* char::is_whitespace on the ASCII range (White_Space): line 127
char_is_whitespace(ch) == ch \in {SPACE, TAB, NL, CR}

\* char::is_digit on the ASCII range: lines 103, 109
is_digit(ch) == ch \in Digits

\* is_whitespace without the space
is_whitespace_tab_only(ch) == ch = TAB

\* is_whitespace with the newline among the characters skipped
is_whitespace_newline(ch) == ch = TAB \/ ch = SPACE \/ ch = NL

\* Lexer::is_whitespace
is_whitespace(ch) == ch = TAB \/ ch = SPACE

(***************************************************************************)
(* The string library, as the lexer uses it.  Offsets are 0-based.         *)
(***************************************************************************)
None == [some |-> FALSE]
Some(v) == [some |-> TRUE, val |-> v]

char_at(s, i) == s[i + 1]

\* s.slice(begin, end) is defined when begin <= end <= s.len()
slice_ok(s, begin, end) == begin <= end /\ end <= Len(s)
slice(s, begin, end) == SubSeq(s, begin + 1, end)

slice_from_ok(s, begin) == begin <= Len(s)
slice_from(s, begin) == SubSeq(s, begin + 1, Len(s))

\* s.find(ch): the offset in s of the first ch
find(s, ch) ==
  IF \E i \in 1..Len(s) : s[i] = ch
  THEN Some((CHOOSE i \in 1..Len(s) : s[i] = ch /\ \A j \in 1..(i - 1) : s[j] # ch) - 1)
  ELSE None

(***************************************************************************)
(* Decimal numerals.  An i64 does not fit TLC's integers, so the value of  *)
(* an Int token is kept as its canonical decimal numeral (no leading       *)
(* zeros); the comparison with i64::MAX is made on numerals.               *)
(***************************************************************************)
I64Max == <<"9","2","2","3","3","7","2","0","3","6","8","5","4","7","7","5","8","0","7">>

DigitVal(d) ==
  CASE d = "0" -> 0 [] d = "1" -> 1 [] d = "2" -> 2 [] d = "3" -> 3 [] d = "4" -> 4
    [] d = "5" -> 5 [] d = "6" -> 6 [] d = "7" -> 7 [] d = "8" -> 8 [] d = "9" -> 9

DigitChar(n) == CHOOSE d \in Digits : DigitVal(d) = n

RECURSIVE StripZeros(_)
StripZeros(ds) ==
  IF Len(ds) > 1 /\ ds[1] = "0" THEN StripZeros(Tail(ds)) ELSE ds

\* a <= b for canonical numerals
RECURSIVE LexLeq(_, _)
LexLeq(a, b) ==
  IF a = <<>> THEN TRUE
  ELSE IF DigitVal(a[1]) < DigitVal(b[1]) THEN TRUE
  ELSE IF DigitVal(a[1]) > DigitVal(b[1]) THEN FALSE
  ELSE LexLeq(Tail(a), Tail(b))

NumLeq(a, b) == Len(a) < Len(b) \/ (Len(a) = Len(b) /\ LexLeq(a, b))

\* from_str::<i64> on a non-empty run of digits: None when the value overflows
from_str(buffer) ==
  LET v == StripZeros(buffer) IN
  IF NumLeq(v, I64Max) THEN Some(v) ELSE None

\* "{}" of a uint
RECURSIVE DecStr(_)
DecStr(n) ==
  IF n < 10 THEN <<DigitChar(n)>> ELSE DecStr(n \div 10) \o <<DigitChar(n % 10)>>

(***************************************************************************)
(* Tokens, errors and the results of the scanning functions.               *)
(***************************************************************************)
If == [type |-> "If"]
Loop == [type |-> "Loop"]
Break == [type |-> "Break"]
Continue == [type |-> "Continue"]
Let == [type |-> "Let"]
LParen == [type |-> "LParen"]
RParen == [type |-> "RParen"]
LBrace == [type |-> "LBrace"]
RBrace == [type |-> "RBrace"]
Fn == [type |-> "Fn"]
Macro == [type |-> "Macro"]
Plus == [type |-> "Plus"]
Minus == [type |-> "Minus"]
Times == [type |-> "Times"]
Divide == [type |-> "Divide"]
Equal == [type |-> "Equal"]
Less == [type |-> "Less"]
Great == [type |-> "Great"]
Period == [type |-> "Period"]
Comma == [type |-> "Comma"]
Newline == [type |-> "Newline"]
Str(text) == [type |-> "Str", text |-> text]
IntTok(numeral) == [type |-> "Int", numeral |-> numeral]
Float(f) == [type |-> "Float", f |-> f]
Bool(b) == [type |-> "Bool", b |-> b]
Ident(text) == [type |-> "Ident", text |-> text]

LexerErrorKind == {"EndOfData", "UnmatchedToken", "IntegerOverflow"}

\* LexerError::new
LexerError(kind, desc) == [kind |-> kind, desc |-> desc]

\* Result<(Token, uint, uint), LexerError>; Panic is the failure of the task
Ok(token, index, new_line) ==
  [tag |-> "Ok", token |-> token, index |-> index, line |-> new_line]
Err(f) == [tag |-> "Err", err |-> f]
Panic == [tag |-> "Panic"]
NoSymbol == [tag |-> "None"]

\* format!("mismatched '\"' starting at line {}", line)
MismatchedText ==
  <<"m","i","s","m","a","t","c","h","e","d"," ","'","\"","'"," ",
    "s","t","a","r","t","i","n","g"," ","a","t"," ","l","i","n","e"," ">>
fmt_mismatched(ln) == MismatchedText \o DecStr(ln)

\* format!("'{}' at line {} is too big", buffer, line)
AtLineText == <<"'"," ","a","t"," ","l","i","n","e"," ">>
TooBigText == <<" ","i","s"," ","t","o","o"," ","b","i","g">>
fmt_too_big(buffer, ln) == <<"'">> \o buffer \o AtLineText \o DecStr(ln) \o TooBigText

(***************************************************************************)
(* Lexer::skip_whitespace                                                  *)
(***************************************************************************)
RECURSIVE skip_whitespace(_, _)
skip_whitespace(c, i) ==
  IF i < Len(c) /\ is_whitespace(char_at(c, i)) THEN skip_whitespace(c, i + 1) ELSE i

(***************************************************************************)
(* Lexer::find_symbol_token                                                *)
(***************************************************************************)
\* lines 164-171: the backslashes at the end of s
RECURSIVE count_backslashes(_)
count_backslashes(s) ==
  IF s # <<>> /\ s[Len(s)] = BACKSLASH
  THEN 1 + count_backslashes(SubSeq(s, 1, Len(s) - 1))
  ELSE 0

\* lines 162-163: the value the loop binds to index, an offset in slice_from(i)
quote_index(c, i) == find(slice_from(c, i), QUOTE)

\* lines 161-181: the loop of the string branch, entered with idx = i.
\* Found(i) is the break with idx = i, Unmatched the return of line 179.
RECURSIVE string_loop(_, _)
string_loop(c, i) ==
  IF ~slice_from_ok(c, i) THEN [tag |-> "Panic"]
  ELSE LET m == quote_index(c, i) IN
    IF ~m.some THEN [tag |-> "Unmatched"]
    ELSE LET index == m.val IN
      IF ~slice_ok(c, i, index) THEN [tag |-> "Panic"]
      ELSE IF count_backslashes(slice(c, i, index)) % 2 = 0
           THEN [tag |-> "Found", idx |-> index]
           ELSE string_loop(c, index + 1)

\* lines 161-181: the values idx has at the head of the iterations of the loop
RECURSIVE string_loop_positions(_, _)
string_loop_positions(c, i) ==
  IF ~slice_from_ok(c, i) THEN <<i>>
  ELSE LET m == quote_index(c, i) IN
    IF ~m.some THEN <<i>>
    ELSE LET index == m.val IN
      IF ~slice_ok(c, i, index) THEN <<i>>
      ELSE IF count_backslashes(slice(c, i, index)) % 2 = 0
           THEN <<i>>
           ELSE <<i>> \o string_loop_positions(c, index + 1)

\* lines 158-183: the branch of '"'
string_token(c, i, ln) ==
  LET start == i + 1
      r == string_loop(c, i + 1)
  IN CASE r.tag = "Panic" -> Panic
       [] r.tag = "Unmatched" -> Err(LexerError("UnmatchedToken", Some(fmt_mismatched(ln))))
       [] r.tag = "Found" ->
            IF slice_ok(c, start, r.idx + 1)
            THEN Ok(Str(slice(c, start, r.idx + 1)), r.idx + 1, ln)
            ELSE Panic

\* lines 184-196: the one-character symbols
SymbolChars == {"(", ")", "{", "}", "+", "-", "*", "/", "=", "<", ">", ".", ","}

symbol(ch) ==
  CASE ch = "(" -> LParen [] ch = ")" -> RParen [] ch = "{" -> LBrace
    [] ch = "}" -> RBrace [] ch = "+" -> Plus [] ch = "-" -> Minus
    [] ch = "*" -> Times [] ch = "/" -> Divide [] ch = "=" -> Equal
    [] ch = "<" -> Less [] ch = ">" -> Great [] ch = "." -> Period
    [] ch = "," -> Comma

\* the branch of '\n' without the step of the cursor
newline_token_stuck(i, ln) == Ok(Newline, i, ln + 1)

\* lines 197-200: the branch of '\n'
newline_token(i, ln) == Ok(Newline, i + 1, ln + 1)

find_symbol_token(c, i, ln) ==
  LET ch == char_at(c, i) IN
  IF ch = QUOTE THEN string_token(c, i, ln)
  ELSE IF ch \in SymbolChars THEN Ok(symbol(ch), i + 1, ln)
  ELSE IF ch = NL THEN newline_token(i, ln)
  ELSE NoSymbol

(***************************************************************************)
(* Lexer::find_token                                                       *)
(***************************************************************************)
\* lines 106-114: the digit at i and the digits that follow it
RECURSIVE digit_run(_, _)
digit_run(c, i) ==
  IF i < Len(c) /\ is_digit(char_at(c, i))
  THEN <<char_at(c, i)>> \o digit_run(c, i + 1)
  ELSE <<>>

\* the number branch without the overflow check: the value is taken as parsed
number_token_unchecked(c, i, ln) ==
  LET buffer == <<char_at(c, i)>> \o digit_run(c, i + 1)
  IN Ok(IntTok(StripZeros(buffer)), i + Len(buffer), ln)

\* the number branch with a decimal point: digits, a period and digits give
\* one Float
number_token_float(c, i, ln) ==
  LET buffer == <<char_at(c, i)>> \o digit_run(c, i + 1)
      e == i + Len(buffer)
      m == from_str(buffer)
  IN IF e + 1 < Len(c) /\ char_at(c, e) = "." /\ is_digit(char_at(c, e + 1))
     THEN Ok(Float(<<buffer, digit_run(c, e + 1)>>), e + 1 + Len(digit_run(c, e + 1)), ln)
     ELSE IF m.some
     THEN Ok(IntTok(m.val), i + Len(buffer), ln)
     ELSE Err(LexerError("IntegerOverflow", Some(fmt_too_big(buffer, ln))))

\* lines 103-120: the number branch, entered with a digit at i
number_token(c, i, ln) ==
  LET buffer == <<char_at(c, i)>> \o digit_run(c, i + 1)
      m == from_str(buffer)
  IN IF m.some
     THEN Ok(IntTok(m.val), i + Len(buffer), ln)
     ELSE Err(LexerError("IntegerOverflow", Some(fmt_too_big(buffer, ln))))

\* the condition of line 127 with the digits among the characters that end an
\* identifier
ident_break_digit(c, j, ln) ==
  LET ch == char_at(c, j) IN
  \/ char_is_whitespace(ch) \/ ch = QUOTE \/ is_digit(ch)
  \/ find_symbol_token(c, j, ln).tag # "None"

\* line 127: the condition that ends an identifier at offset j
ident_break(c, j, ln) ==
  LET ch == char_at(c, j) IN
  char_is_whitespace(ch) \/ ch = QUOTE \/ find_symbol_token(c, j, ln).tag # "None"

\* lines 126-133: the characters the identifier takes from offset j on
RECURSIVE ident_rest(_, _, _)
ident_rest(c, j, ln) ==
  IF j < Len(c) /\ ~ident_break(c, j, ln)
  THEN <<char_at(c, j)>> \o ident_rest(c, j + 1, ln)
  ELSE <<>>

\* the keyword table with the two boolean words exchanged
keyword_swapped(buffer) ==
  CASE buffer = <<"i","f">> -> If
    [] buffer = <<"l","o","o","p">> -> Loop
    [] buffer = <<"b","r","e","a","k">> -> Break
    [] buffer = <<"c","o","n","t","i","n","u","e">> -> Continue
    [] buffer = <<"l","e","t">> -> Let
    [] buffer = <<"f","n">> -> Fn
    [] buffer = <<"m","a","c","r","o">> -> Macro
    [] buffer = <<"t","r","u","e">> -> Bool(FALSE)
    [] buffer = <<"f","a","l","s","e">> -> Bool(TRUE)
    [] OTHER -> Ident(buffer)

\* lines 134-145: the keyword table
keyword(buffer) ==
  CASE buffer = <<"i","f">> -> If
    [] buffer = <<"l","o","o","p">> -> Loop
    [] buffer = <<"b","r","e","a","k">> -> Break
    [] buffer = <<"c","o","n","t","i","n","u","e">> -> Continue
    [] buffer = <<"l","e","t">> -> Let
    [] buffer = <<"f","n">> -> Fn
    [] buffer = <<"m","a","c","r","o">> -> Macro
    [] buffer = <<"t","r","u","e">> -> Bool(TRUE)
    [] buffer = <<"f","a","l","s","e">> -> Bool(FALSE)
    [] OTHER -> Ident(buffer)

\* lines 121-146: the identifier branch, entered with any other character at i
ident_token(c, i, ln) ==
  LET buffer == <<char_at(c, i)>> \o ident_rest(c, i + 1, ln)
  IN Ok(keyword(buffer), i + Len(buffer), ln)

find_token(c, idx0, len, ln) ==
  LET i == skip_whitespace(c, idx0) IN
  IF i < len
  THEN LET s == find_symbol_token(c, i, ln) IN
       IF s.tag # "None" THEN s
       ELSE IF is_digit(char_at(c, i)) THEN number_token(c, i, ln)
       ELSE ident_token(c, i, ln)
  ELSE Err(LexerError("EndOfData", None))

(***************************************************************************)
(* Lexer::tokenize.  ret is what the call has returned: nothing yet        *)
(* (Running), Ok(tokens), Err(error), or nothing ever (Panic).  calls      *)
(* counts the calls of find_token.                                         *)
(***************************************************************************)
Running == [tag |-> "Running"]

\* the match of tokenize without the arm of EndOfData: every error is returned
tokenize_match_propagate(r) ==
  CASE r.tag = "Ok" -> "push"
    [] r.tag = "Err" -> "return"
    [] r.tag = "Panic" -> "panic"

\* lines 76-80: what tokenize does with the result r of find_token
tokenize_match(r) ==
  CASE r.tag = "Ok" -> "push"
    [] r.tag = "Err" /\ r.err.kind = "EndOfData" -> "break"
    [] r.tag = "Err" -> "return"
    [] r.tag = "Panic" -> "panic"

\* an error that carries the tokens collected before it
tokenize_err_with_tokens(f, tokens) == [tag |-> "Err", err |-> f, tokens |-> tokens]

\* line 79: return Err(f)
tokenize_err(f, tokens) == [tag |-> "Err", err |-> f]

\* line 86: Ok(result)
tokenize_ok(tokens) == [tag |-> "Ok", tokens |-> tokens]

Found == find_token(code, idx, Len(code), line)

\* lines 76-83: find_token gave a token
PushToken ==
  /\ ret = Running
  /\ tokenize_match(Found) = "push"
  /\ idx' = Found.index
  /\ line' = Found.line
  /\ result' = Append(result, Found.token)
  /\ calls' = calls + 1
  /\ UNCHANGED <<code, ret>>

\* lines 78, 86: the end of the input
EndOfInput ==
  /\ ret = Running
  /\ tokenize_match(Found) = "break"
  /\ ret' = tokenize_ok(result)
  /\ calls' = calls + 1
  /\ UNCHANGED <<code, idx, line, result>>

\* line 79: a lexical error
ReturnErr ==
  /\ ret = Running
  /\ tokenize_match(Found) = "return"
  /\ ret' = tokenize_err(Found.err, result)
  /\ calls' = calls + 1
  /\ UNCHANGED <<code, idx, line, result>>

\* an assertion of slice failed in find_symbol_token: the task fails
TaskFailure ==
  /\ ret = Running
  /\ tokenize_match(Found) = "panic"
  /\ ret' = Panic
  /\ calls' = calls + 1
  /\ UNCHANGED <<code, idx, line, result>>

\* lines 69-87: tokenize as a function of the text, the loop entered with the
\* cursor i, the line ln and the tokens res
RECURSIVE tokenize_loop(_, _, _, _)
tokenize_loop(c, i, ln, res) ==
  LET r == find_token(c, i, Len(c), ln)
      arm == tokenize_match(r)
  IN CASE arm = "push" -> tokenize_loop(c, r.index, r.line, Append(res, r.token))
       [] arm = "break" -> tokenize_ok(res)
       [] arm = "return" -> tokenize_err(r.err, res)
       [] arm = "panic" -> Panic

tokenize(c) == tokenize_loop(c, 0, 1, <<>>)

(***************************************************************************)
(* The source texts of the model.                                          *)
(***************************************************************************)
Alphabet == {QUOTE, BACKSLASH, NL, SPACE, CR, "a", "1", "+"}

ShortInputs == UNION {[1..n -> Alphabet] : n \in 0..MaxLen}

\* src/src/main.rs line 5: fn main() { 3 + 4 }
MainExample ==
  <<"f","n",SPACE,"m","a","i","n","(",")",SPACE,"{",SPACE,"3",SPACE,"+",SPACE,"4",SPACE,"}">>

\* lexer.rs lines 4-6: the first example of the header
FibExample ==
  <<"f","n",SPACE,"f","i","b","(","x",")",SPACE,"{",NL,SPACE,SPACE,SPACE,"3",SPACE,"+",SPACE,"4",NL,"}">>

\* lexer.rs line 10: the second example of the header
LetExample ==
  <<"l","e","t",SPACE,"x",SPACE,"=",SPACE,"5">>

\* a, newline, b, newline, c
LinesExample ==
  <<"a",NL,"b",NL,"c">>

\* the nine reserved words
KeywordTexts ==
  {<<"i","f">>,
   <<"l","o","o","p">>,
   <<"b","r","e","a","k">>,
   <<"c","o","n","t","i","n","u","e">>,
   <<"l","e","t">>,
   <<"f","n">>,
   <<"m","a","c","r","o">>,
   <<"t","r","u","e">>,
   <<"f","a","l","s","e">>}

\* names that are not reserved words
NameTexts ==
  {<<"i","f","f">>,
   <<"x","i","f">>,
   <<"i","f","1">>,
   <<"l","e","t","s">>,
   <<"f","n","n">>,
   <<"t","r","u","e","x">>,
   <<"F","a","l","s","e">>,
   <<"m","a","c","r","o","s">>,
   <<"c","o","n","t","i","n","u","e","d">>,
   <<"b","r","e","a","k","l","o","o","p">>,
   <<"x">>,
   <<"a","b","1","2">>,
   <<"i","f",SPACE,"i","f","f">>}

\* digit runs around i64::MAX = 9223372036854775807, and digits beside letters
NumberTexts ==
  {<<"0">>,
   <<"0","0","7">>,
   <<"1","2","a","b">>,
   <<"1",".","5">>,
   <<"9","2","2","3","3","7","2","0","3","6","8","5","4","7","7","5","8","0","7">>,
   <<"9","2","2","3","3","7","2","0","3","6","8","5","4","7","7","5","8","0","8">>,
   <<"9","2","2","3","3","7","2","0","3","6","8","5","4","7","7","5","7","9","9">>,
   <<"1","0","0","0","0","0","0","0","0","0","0","0","0","0","0","0","0","0","0","0">>,
   <<"9","9","9","9","9","9","9","9","9","9","9","9","9","9","9","9","9","9","9","9">>,
   <<"0","0","0","0","0","0","0","0","0","0","0","0","0","0","0","0","0","0","0","0","0","0","7">>,
   <<"0","9","2","2","3","3","7","2","0","3","6","8","5","4","7","7","5","8","0","8">>}

\* string literals, closed and not
StringTexts ==
  {<<QUOTE,"a","b","c",QUOTE>>,
   <<QUOTE,QUOTE>>,
   <<QUOTE,"a",BACKSLASH,QUOTE,"b",QUOTE>>,
   <<QUOTE,"a","b","c">>,
   <<QUOTE,"a",BACKSLASH,BACKSLASH,QUOTE>>,
   <<QUOTE,"a",NL,"b",QUOTE>>,
   <<QUOTE,"a",BACKSLASH,QUOTE>>,
   <<QUOTE,"1","2",QUOTE>>}

Cores ==
  {MainExample, FibExample, LetExample, LinesExample}
    \cup KeywordTexts \cup NameTexts \cup NumberTexts \cup StringTexts

\* what stands before and after a core
Pads == UNION {[1..n -> {NL, SPACE, TAB}] : n \in 0..MaxPad}
Tails == {<<>>, <<"x">>, <<"(">>, <<SPACE, "7">>, <<NL>>, <<QUOTE>>}

Programs == {p \o c \o t : p \in Pads, c \in Cores, t \in Tails}

Inputs == ShortInputs \cup Programs

Init ==
  /\ code \in Inputs
  /\ idx = 0
  /\ line = 1
  /\ result = <<>>
  /\ ret = Running
  /\ calls = 0

Next == PushToken \/ EndOfInput \/ ReturnErr \/ TaskFailure

Spec == Init /\ [][Next]_vars

(***************************************************************************)
(* Notions the properties are stated with.  They are defined on the text   *)
(* alone, not with the scanning functions above.                           *)
(***************************************************************************)
Blank(ch) == ch \in {SPACE, TAB}

CountOf(s, ch) == Cardinality({i \in 1..Len(s) : s[i] = ch})

CountTokens(ts, tok) == Cardinality({i \in 1..Len(ts) : ts[i] = tok})

\* the offset of the first character at or after offset i that is neither a
\* space nor a tab; the length of c when there is none
NextStart(c, i) ==
  CHOOSE j \in i..Len(c) :
    /\ \A k \in (i + 1)..j : Blank(c[k])
    /\ (j = Len(c) \/ ~Blank(c[j + 1]))

\* where the scan step of the current state starts
Cursor == NextStart(code, idx)

\* the number of consecutive backslashes that end at offset j (exclusive) and
\* begin after offset q
BackslashesBefore(c, q, j) ==
  CHOOSE n \in 0..(j - q - 1) :
    /\ \A k \in (j - n + 1)..j : c[k] = BACKSLASH
    /\ (n = j - q - 1 \/ c[j - n] # BACKSLASH)

\* the quote at offset j closes the literal opened by the quote at offset q
Unescaped(c, q, j) ==
  /\ q < j /\ j < Len(c)
  /\ c[j + 1] = QUOTE
  /\ BackslashesBefore(c, q, j) % 2 = 0

Closers(c, q) == {j \in (q + 1)..(Len(c) - 1) : Unescaped(c, q, j)}

Terminated(c, q) == Closers(c, q) # {}

\* the offset of the quote that closes the literal opened at offset q
Closer(c, q) == CHOOSE j \in Closers(c, q) : \A k \in Closers(c, q) : j <= k

\* the text from offset b (inclusive) to offset e (exclusive)
Text(c, b, e) == SubSeq(c, b + 1, e)

\* the line of offset q: 1 plus the newlines before it
LineOf(c, q) == 1 + CountOf(Text(c, 0, q), NL)

\* the end (exclusive) of the run of digits that starts at offset q
DigitsEnd(c, q) ==
  CHOOSE e \in q..Len(c) :
    /\ \A k \in (q + 1)..e : c[k] \in Digits
    /\ (e = Len(c) \/ c[e + 1] \notin Digits)

\* the numeral ds, without its leading zeros, is greater than 2^63 - 1
ExceedsI64(ds) ==
  LET z == CHOOSE n \in 0..(Len(ds) - 1) :
             /\ \A k \in 1..n : ds[k] = "0"
             /\ (n = Len(ds) - 1 \/ ds[n + 1] # "0")
      v == SubSeq(ds, z + 1, Len(ds))
  IN \/ Len(v) > 19
     \/ /\ Len(v) = 19
        /\ \E k \in 1..19 :
             /\ \A j \in 1..(k - 1) : v[j] = I64Max[j]
             /\ DigitVal(v[k]) > DigitVal(I64Max[k])

\* the maximal runs of digits of c, each as <<begin, end>> (end exclusive)
MaximalRuns(c) ==
  {<<b, e>> \in (0..Len(c)) \X (0..Len(c)) :
     /\ b < e
     /\ \A k \in (b + 1)..e : c[k] \in Digits
     /\ (b = 0 \/ c[b] \notin Digits)
     /\ (e = Len(c) \/ c[e + 1] \notin Digits)}

NoBigRun(c) == \A r \in MaximalRuns(c) : ~ExceedsI64(Text(c, r[1], r[2]))

\* every literal of c is closed: reading c from the left, each quote met
\* outside of a literal opens one, which the next unescaped quote closes
RECURSIVE LiteralsClosedFrom(_, _)
LiteralsClosedFrom(c, i) ==
  IF i >= Len(c) THEN TRUE
  ELSE IF c[i + 1] # QUOTE THEN LiteralsClosedFrom(c, i + 1)
  ELSE Terminated(c, i) /\ LiteralsClosedFrom(c, Closer(c, i) + 1)

LiteralsClosed(c) == LiteralsClosedFrom(c, 0)

HasQuote(c) == \E i \in 1..Len(c) : c[i] = QUOTE

\* the offset of the first quote of c
FirstQuote(c) == CHOOSE q \in 0..(Len(c) - 1) : c[q + 1] = QUOTE /\ ~HasQuote(Text(c, 0, q))

Done == ret.tag # "Running"

(***************************************************************************)
(* C1: tokenize applied to `fn main() { 3 + 4 }` returns Ok with exactly   *)
(* the nine tokens Fn, Ident(main), LParen, RParen, LBrace, Int(3), Plus,  *)
(* Int(4), RBrace, in that order; the spaces produce no token.             *)
(***************************************************************************)
MainTokens ==
  <<Fn, Ident(<<"m","a","i","n">>), LParen, RParen, LBrace,
    IntTok(<<"3">>), Plus, IntTok(<<"4">>), RBrace>>

C1_MainExample ==
  code = MainExample =>
    /\ Done => ret = [tag |-> "Ok", tokens |-> MainTokens]
    /\ \E n \in 0..Len(MainTokens) : result = SubSeq(MainTokens, 1, n)

C1_Witness == code = MainExample /\ ret.tag = "Ok" /\ Len(ret.tokens) = 9

(***************************************************************************)
(* C2: every input in which no digit run exceeds the 64-bit signed range   *)
(* and every string literal is closed by an unescaped double quote makes   *)
(* tokenize return Ok, never an error.                                     *)
(***************************************************************************)
C2_WellFormedIsOk ==
  (Done /\ NoBigRun(code) /\ LiteralsClosed(code)) => ret.tag = "Ok"

(***************************************************************************)
(* C3: when the scan step starts at an opening double quote and a          *)
(* terminating unescaped quote exists, the step pushes one Str token whose *)
(* payload is the text from the opening quote through the terminating      *)
(* quote, both included, and leaves the cursor just past the terminating   *)
(* quote.  (Stated for the first quote of the input, which opens a         *)
(* literal whatever stands before it.)                                     *)
(***************************************************************************)
C3_StrStep ==
  (/\ ret.tag = "Running"
   /\ HasQuote(code)
   /\ Cursor = FirstQuote(code)
   /\ Terminated(code, Cursor))
    => /\ result' = Append(result, Str(Text(code, Cursor, Closer(code, Cursor) + 1)))
       /\ idx' = Closer(code, Cursor) + 1
       /\ ret' = ret

C3_StrLiteral == [][C3_StrStep]_vars

(***************************************************************************)
(* C4: every input in which a string literal is opened and no unescaped    *)
(* double quote follows it before the end of the input makes tokenize      *)
(* return Err with kind UnmatchedToken and the description                 *)
(* `mismatched '"' starting at line <n>`, n being the line of the opening  *)
(* quote.  (Stated for the first quote of the input, with no digit run     *)
(* that overflows before it.)                                              *)
(***************************************************************************)
C4_Unterminated ==
  (/\ Done
   /\ HasQuote(code)
   /\ ~Terminated(code, FirstQuote(code))
   /\ NoBigRun(Text(code, 0, FirstQuote(code))))
    => ret = [tag |-> "Err",
              err |-> [kind |-> "UnmatchedToken",
                       desc |-> Some(MismatchedText
                                       \o DecStr(LineOf(code, FirstQuote(code))))]]

(***************************************************************************)
(* C5: a scan step that starts at an ASCII digit takes the whole run of    *)
(* digits that starts there; when the value of the run is greater than     *)
(* 2^63 - 1 tokenize returns Err with kind IntegerOverflow and the         *)
(* description `'<digits>' at line <n> is too big`, n being the current    *)
(* line; when it is at most 2^63 - 1 the step pushes Int(value), the       *)
(* cursor moves to the end of the run, and there is no error.              *)
(***************************************************************************)
\* the value of a run of digits, as a numeral without leading zeros
ValueOf(ds) ==
  LET z == CHOOSE n \in 0..(Len(ds) - 1) :
             /\ \A k \in 1..n : ds[k] = "0"
             /\ (n = Len(ds) - 1 \/ ds[n + 1] # "0")
  IN SubSeq(ds, z + 1, Len(ds))

C5_NumberStep ==
  (/\ ret.tag = "Running"
   /\ Cursor < Len(code)
   /\ code[Cursor + 1] \in Digits)
    => LET run == Text(code, Cursor, DigitsEnd(code, Cursor)) IN
       IF ExceedsI64(run)
       THEN /\ ret' = [tag |-> "Err",
                       err |-> [kind |-> "IntegerOverflow",
                                desc |-> Some(<<"'">> \o run \o AtLineText
                                                \o DecStr(line) \o TooBigText)]]
            /\ result' = result
       ELSE /\ result' = Append(result, [type |-> "Int", numeral |-> ValueOf(run)])
            /\ idx' = DigitsEnd(code, Cursor)
            /\ line' = line
            /\ ret' = ret

C5_DigitRun == [][C5_NumberStep]_vars

C5_Witness ==
  /\ ret.tag = "Err"
  /\ ret.err.kind = "IntegerOverflow"
  /\ Text(code, Cursor, DigitsEnd(code, Cursor))
       = <<"9","2","2","3","3","7","2","0","3","6","8","5","4","7","7","5","8","0","8">>
  /\ line = 2

(***************************************************************************)
(* C6: on success every newline character of the input produces exactly    *)
(* one Newline token, at its position in source order (while a text        *)
(* without string literals is scanned, the Newline tokens collected are    *)
(* as many as the newlines before the cursor), and spaces and tabs produce *)
(* no token; a, newline, b, newline, c gives Ident(a), Newline, Ident(b),  *)
(* Newline, Ident(c).                                                      *)
(***************************************************************************)
LinesTokens ==
  <<Ident(<<"a">>), Newline, Ident(<<"b">>), Newline, Ident(<<"c">>)>>

NonBlanks(c) == Cardinality({i \in 1..Len(c) : ~Blank(c[i])})

C7_ErrorLine ==
  ret.tag = "Err" =>
    LET n == LineOf(code, Cursor) IN
    \/ /\ ret.err.kind = "UnmatchedToken"
       /\ ret.err.desc = Some(MismatchedText \o DecStr(n))
    \/ /\ ret.err.kind = "IntegerOverflow"
       /\ ret.err.desc = Some(<<"'">> \o Text(code, Cursor, DigitsEnd(code, Cursor))
                                \o AtLineText \o DecStr(n) \o TooBigText)

(***************************************************************************)
(* C8: a scan step that starts at a character which is no symbol, no       *)
(* quote, no newline and no digit takes the run up to the next whitespace, *)
(* quote or symbol; when the text of the run is exactly one of if, loop,   *)
(* break, continue, let, fn, macro, true, false the step pushes the        *)
(* reserved token, and in every other case, also when the text starts with *)
(* or contains a reserved word, it pushes Ident with the text of the run.  *)
(***************************************************************************)
ReservedWords ==
  {<<<<"i","f">>, [type |-> "If"]>>,
   <<<<"l","o","o","p">>, [type |-> "Loop"]>>,
   <<<<"b","r","e","a","k">>, [type |-> "Break"]>>,
   <<<<"c","o","n","t","i","n","u","e">>, [type |-> "Continue"]>>,
   <<<<"l","e","t">>, [type |-> "Let"]>>,
   <<<<"f","n">>, [type |-> "Fn"]>>,
   <<<<"m","a","c","r","o">>, [type |-> "Macro"]>>,
   <<<<"t","r","u","e">>, [type |-> "Bool", b |-> TRUE]>>,
   <<<<"f","a","l","s","e">>, [type |-> "Bool", b |-> FALSE]>>}

EndsName(ch) == ch \in {SPACE, TAB, NL, CR, QUOTE} \cup SymbolChars

\* the end (exclusive) of the run that starts at offset q
NameEnd(c, q) ==
  CHOOSE e \in (q + 1)..Len(c) :
    /\ \A k \in (q + 2)..e : ~EndsName(c[k])
    /\ (e = Len(c) \/ EndsName(c[e + 1]))

C8_IdentStep ==
  (/\ ret.tag = "Running"
   /\ Cursor < Len(code)
   /\ code[Cursor + 1] \notin Digits \cup SymbolChars \cup {NL, QUOTE})
    => LET text == Text(code, Cursor, NameEnd(code, Cursor))
           word == {p \in ReservedWords : p[1] = text}
       IN /\ result' = Append(result,
                              IF word # {}
                              THEN (CHOOSE p \in word : TRUE)[2]
                              ELSE [type |-> "Ident", text |-> text])
          /\ idx' = NameEnd(code, Cursor)

C8_Keywords == [][C8_IdentStep]_vars

C8_Witness ==
  /\ ret.tag = "Ok"
  /\ \E i \in 1..(Len(result) - 1) :
       /\ result[i] = [type |-> "If"]
       /\ result[i + 1] = [type |-> "Ident", text |-> <<"i","f","f">>]

(***************************************************************************)
(* C9: tokenize never returns an error of kind EndOfData: the only kinds   *)
(* of error it returns are UnmatchedToken and IntegerOverflow, and when    *)
(* nothing but spaces and tabs is left of the input it returns Ok with the *)
(* tokens collected so far.                                                *)
(***************************************************************************)
C9_Step ==
  /\ ret'.tag = "Err" => ret'.err.kind \in {"UnmatchedToken", "IntegerOverflow"}
  /\ (ret.tag = "Running" /\ Cursor = Len(code)) =>
       /\ ret' = [tag |-> "Ok", tokens |-> result]
       /\ result' = result

C9_NoEndOfData == [][C9_Step]_vars

C9_Witness ==
  /\ ret.tag = "Ok"
  /\ Len(ret.tokens) >= 2
  /\ idx < Len(code)
  /\ Cursor = Len(code)

(***************************************************************************)
(* C10: the error tokenize returns is the first one raised in scan order:  *)
(* every call of find_token before the failing one gave a token, the       *)
(* failing step pushes no token and does not move the cursor, what is      *)
(* returned is the error alone (the tokens collected are not part of it),  *)
(* no scan step follows it, and Ok is returned only at the end of the      *)
(* input, never after a failed step.                                       *)
(***************************************************************************)
C10_Step ==
  /\ ret.tag = "Running"
  /\ ret'.tag = "Err" =>
       /\ result' = result
       /\ idx' = idx /\ line' = line
       /\ calls' = Len(result) + 1
       /\ DOMAIN ret' = {"tag", "err"}
       /\ DOMAIN ret'.err = {"kind", "desc"}
       /\ ret'.err.kind = "UnmatchedToken" <=> code[Cursor + 1] = QUOTE
       /\ ret'.err.kind = "IntegerOverflow" <=> code[Cursor + 1] \in Digits
  /\ ret'.tag = "Ok" => Cursor = Len(code)

C10_FirstError == [][C10_Step]_vars

C10_Witness ==
  /\ ret.tag = "Err"
  /\ Len(result) >= 2
  /\ calls = Len(result) + 1

(***************************************************************************)
(* C11: across the scan steps of one call the cursor never decreases, the  *)
(* line number never decreases, and the line number after a step is the    *)
(* line number before it plus the number of newline characters the step    *)
(* consumed, those inside a consumed string literal included.              *)
(***************************************************************************)
C11_Step ==
  /\ idx' >= idx
  /\ line' >= line
  /\ line' = line + CountOf(Text(code, idx, idx'), NL)

C11_CursorAndLine == [][C11_Step]_vars

(***************************************************************************)
(* C12: no Ident token that tokenize produces has in its text a whitespace *)
(* character (space, tab, carriage return, newline), a double quote or one *)
(* of the symbol characters ( ) { } + - * / = < > . ,                      *)
(***************************************************************************)
NotInIdent == {SPACE, TAB, CR, NL, QUOTE} \cup SymbolChars

C12_IdentText ==
  \A i \in 1..Len(result) :
    result[i].type = "Ident" =>
      \A k \in 1..Len(result[i].text) : result[i].text[k] \notin NotInIdent

(***************************************************************************)
(* C13: as the header of lexer.rs states, the three lines `fn fib(x) {`,   *)
(* `   3 + 4`, `}` give exactly the ten tokens Fn, Ident(fib), LParen,     *)
(* Ident(x), RParen, LBrace, Int(3), Plus, Int(4), RBrace, and `let x = 5` *)
(* gives exactly Let, Ident(x), Equal, Int(5).                             *)
(***************************************************************************)
FibTokens ==
  <<[type |-> "Fn"], [type |-> "Ident", text |-> <<"f","i","b">>], [type |-> "LParen"],
    [type |-> "Ident", text |-> <<"x">>], [type |-> "RParen"], [type |-> "LBrace"],
    [type |-> "Int", numeral |-> <<"3">>], [type |-> "Plus"],
    [type |-> "Int", numeral |-> <<"4">>], [type |-> "RBrace"]>>

LetTokens ==
  <<[type |-> "Let"], [type |-> "Ident", text |-> <<"x">>], [type |-> "Equal"],
    [type |-> "Int", numeral |-> <<"5">>]>>

C13_HeaderExamples ==
  /\ (Done /\ code = FibExample) => ret = [tag |-> "Ok", tokens |-> FibTokens]
  /\ (Done /\ code = LetExample) => ret = [tag |-> "Ok", tokens |-> LetTokens]

(***************************************************************************)
(* C14: no input makes tokenize produce a Float token: a scan step that    *)
(* starts at a run of digits followed by a period and a digit pushes an    *)
(* Int and stops at the period, so that `1.5` gives Int(1), Period,        *)
(* Int(5).                                                                 *)
(***************************************************************************)
TokenTypes ==
  {"If", "Loop", "Break", "Continue", "Let", "LParen", "RParen", "LBrace", "RBrace",
   "Fn", "Macro", "Plus", "Minus", "Times", "Divide", "Equal", "Less", "Great",
   "Period", "Comma", "Newline", "Str", "Int", "Bool", "Ident"}

DecimalTokens ==
  <<[type |-> "Int", numeral |-> <<"1">>], [type |-> "Period"],
    [type |-> "Int", numeral |-> <<"5">>]>>

\* a run of digits, a period and a digit stand at offset q
DecimalAt(c, q) ==
  /\ q < Len(c)
  /\ c[q + 1] \in Digits
  /\ DigitsEnd(c, q) + 1 < Len(c)
  /\ c[DigitsEnd(c, q) + 1] = "."
  /\ c[DigitsEnd(c, q) + 2] \in Digits

C14_Step ==
  /\ \A i \in 1..Len(result') : result'[i].type \in TokenTypes
  /\ (/\ ret.tag = "Running"
      /\ DecimalAt(code, Cursor)
      /\ ~ExceedsI64(Text(code, Cursor, DigitsEnd(code, Cursor))))
       => /\ result' = Append(result,
                              [type |-> "Int",
                               numeral |-> ValueOf(Text(code, Cursor, DigitsEnd(code, Cursor)))])
          /\ idx' = DigitsEnd(code, Cursor)
  /\ (ret.tag = "Running" /\ Cursor < Len(code) /\ code[Cursor + 1] = ".")
       => /\ result' = Append(result, [type |-> "Period"])
          /\ idx' = Cursor + 1
  /\ (ret'.tag = "Ok" /\ code = <<"1", ".", "5">>) => ret'.tokens = DecimalTokens

C14_NoFloat == [][C14_Step]_vars

C14_Witness ==
  /\ code = <<"1", ".", "5">>
  /\ ret = [tag |-> "Ok", tokens |-> DecimalTokens]

(***************************************************************************)
(* C15: a string literal ends at the first double quote after the opening  *)
(* quote that is preceded by an even number of consecutive backslashes; a  *)
(* quote preceded by an odd number of backslashes does not end it, so a    *)
(* literal that holds an escaped quote is scanned in one step, as one Str  *)
(* token, and the cursor is then just past the quote that ends it.         *)
(* (Stated for the first quote of the input.)                              *)
(***************************************************************************)
\* the literal opened at offset q holds an escaped quote
HoldsEscapedQuote(c, q) ==
  /\ Terminated(c, q)
  /\ \E j \in (q + 1)..(Closer(c, q) - 1) : c[j + 1] = QUOTE

C15_EscapeStep ==
  (/\ ret.tag = "Running"
   /\ HasQuote(code)
   /\ Cursor = FirstQuote(code)
   /\ HoldsEscapedQuote(code, Cursor))
    => /\ ret'.tag = "Running"
       /\ Len(result') = Len(result) + 1
       /\ result'[Len(result')].type = "Str"
       /\ idx' = Closer(code, Cursor) + 1

C15_EscapedQuotes == [][C15_EscapeStep]_vars

(***************************************************************************)
(* C16: a scan step that starts at an ASCII digit and gives a token takes  *)
(* exactly the run of digits that starts there: the cursor advances by the *)
(* length of the run and stops before the first character that is no       *)
(* digit, a letter included, so that `12ab` gives Int(12), Ident(ab); a    *)
(* step that starts an identifier does not stop at a digit, so that `ab12` *)
(* gives the one token Ident(ab12).                                        *)
(***************************************************************************)
DigitsThenLetters == <<"1", "2", "a", "b">>
LettersThenDigits == <<"a", "b", "1", "2">>

\* the number of digits at the head of s
LeadingDigits(s) ==
  CHOOSE n \in 0..Len(s) :
    /\ \A k \in 1..n : s[k] \in Digits
    /\ (n = Len(s) \/ s[n + 1] \notin Digits)

C16_Step ==
  /\ (/\ ret.tag = "Running" /\ ret'.tag = "Running"
      /\ Cursor < Len(code)
      /\ code[Cursor + 1] \in Digits)
       => /\ idx' = Cursor + LeadingDigits(SubSeq(code, Cursor + 1, Len(code)))
          /\ result'[Len(result')].type = "Int"
          /\ \A k \in (Cursor + 1)..idx' : code[k] \in Digits
          /\ (idx' < Len(code) => code[idx' + 1] \notin Digits)
  /\ (/\ ret.tag = "Running"
      /\ Cursor < Len(code)
      /\ code[Cursor + 1] \notin Digits \cup SymbolChars \cup {NL, QUOTE})
       => /\ idx' > Cursor
          /\ (idx' < Len(code) => code[idx' + 1] \notin Digits)
  /\ (ret'.tag = "Ok" /\ code = DigitsThenLetters) =>
       ret'.tokens = <<[type |-> "Int", numeral |-> <<"1", "2">>],
                       [type |-> "Ident", text |-> <<"a", "b">>]>>
  /\ (ret'.tag = "Ok" /\ code = LettersThenDigits) =>
       ret'.tokens = <<[type |-> "Ident", text |-> <<"a", "b", "1", "2">>]>>

C16_DigitsAndNames == [][C16_Step]_vars

C16_Witness ==
  /\ code = DigitsThenLetters
  /\ ret.tag = "Ok"
  /\ Len(ret.tokens) = 2
  /\ ret.tokens[1].type = "Int"
  /\ ret.tokens[2].type = "Ident"

(***************************************************************************)
(* C17: tokenize terminates on every input: every scan step that gives a   *)
(* token leaves the cursor strictly greater than before, the cursor never  *)
(* passes the end of the input, so the tokens are at most as many as the   *)
(* bytes of the input and the calls of find_token at most one more, and    *)
(* the loop of the string branch strictly advances its search position     *)
(* at every iteration.                                                     *)
(***************************************************************************)
C17_Step ==
  /\ Len(result') > Len(result) => idx' > idx
  /\ Len(result') <= idx'
  /\ idx' <= Len(code)
  /\ calls' <= Len(code) + 1
  /\ (ret.tag = "Running" /\ Cursor < Len(code) /\ code[Cursor + 1] = QUOTE) =>
       LET ps == string_loop_positions(code, Cursor + 1) IN
       /\ ps[1] = Cursor + 1
       /\ \A k \in 1..(Len(ps) - 1) : ps[k] < ps[k + 1]
       /\ \A k \in 1..Len(ps) : ps[k] <= Len(code)

C17_Terminates == [][C17_Step]_vars

\* the bound is reached: as many tokens as bytes, one more call of find_token
C17_Witness ==
  /\ ret.tag = "Ok"
  /\ Len(code) >= 3
  /\ Len(ret.tokens) = Len(code)
  /\ calls = Len(code) + 1

\* a scan step whose string loop goes into a second iteration
C17_SecondIteration ==
  /\ ret.tag = "Running"
  /\ Cursor < Len(code)
  /\ code[Cursor + 1] = QUOTE
  /\ Len(string_loop_positions(code, Cursor + 1)) >= 2

(***************************************************************************)
(* C18: for every ASCII input tokenize returns a value, Ok or a            *)
(* LexerError, and never aborts: every slice it takes has                  *)
(* begin <= end <= length of the input.                                    *)
(***************************************************************************)
C18_NeverAborts == ret.tag \in {"Running", "Ok", "Err"}

(***************************************************************************)
(* C19: the result of tokenize does not depend on the spaces and tabs      *)
(* before the first token: for every input s and every run p of spaces and *)
(* tabs, tokenize(p + s) and tokenize(s) are the same outcome (the same    *)
(* tokens, or the same kind of error and description).                     *)
(***************************************************************************)
BlankPads == UNION {[1..n -> {SPACE, TAB}] : n \in 1..MaxPad}

C19_PaddingIndependent ==
  ret.tag \in {"Ok", "Err"} => \A p \in BlankPads : tokenize(p \o code) = ret

====
